---- MODULE Spec2Model ----
(***************************************************************************)
(* A model of py/scripts/get_yt_transcript.py: the identifier extractor,   *)
(* the SRT time formatter, the three renderers and main's control flow.    *)
(*                                                                         *)
(* A Python str is a sequence of one-character strings.  A Python float is *)
(* an IEEE-754 binary64 value, kept exactly as an integer part and a      *)
(* binary fraction in 16-bit limbs; every float operation rounds to 53     *)
(* significant bits, ties to even, as the hardware does.                   *)
(***************************************************************************)
EXTENDS Integers, Sequences, FiniteSets, TLC

\* ------------------------------------------------------------------ bounds

\* Longest transcript the renderer specification enumerates.
MaxEntries == 2

\* ----------------------------------------------------------------- strings

Range(f) == {f[i] : i \in DOMAIN f}
Max(S) == CHOOSE m \in S : \A k \in S : k <= m
Min(S) == CHOOSE m \in S : \A k \in S : m <= k

NL == "\n"
TAB == "\t"
QUOTE == "\""
BACKSLASH == "\\"

Str_in_ts == <<"i", "n", "_", "t", "s">>
Str_out_ts == <<"o", "u", "t", "_", "t", "s">>
Str_text == <<"t", "e", "x", "t">>

RECURSIVE Concat(_)
\* The concatenation of a sequence of strings.
Concat(ss) == IF ss = <<>> THEN <<>> ELSE Head(ss) \o Concat(Tail(ss))

RECURSIVE Join(_, _)
\* sep.join(parts)
Join(parts, sep) ==
  IF parts = <<>> THEN <<>>
  ELSE IF Len(parts) = 1 THEN parts[1]
  ELSE parts[1] \o sep \o Join(Tail(parts), sep)

\* Whether s starts with prefix p (str.startswith).
StartsWith(s, p) == Len(s) >= Len(p) /\ SubSeq(s, 1, Len(p)) = p

\* s[i:] with a 0-based Python index i >= 0.
Drop(s, i) == IF i >= Len(s) THEN <<>> ELSE SubSeq(s, i + 1, Len(s))

\* The 1-based index of the first character of s that is in cs, or 0.
FindAny(s, cs) ==
  IF \E i \in 1..Len(s) : s[i] \in cs
  THEN CHOOSE i \in 1..Len(s) : s[i] \in cs /\ \A j \in 1..(i - 1) : s[j] \notin cs
  ELSE 0

RECURSIVE Split(_, _)
\* s.split(c) for a one-character separator c: at least one part, always.
Split(s, c) ==
  LET i == FindAny(s, {c})
  IN IF i = 0 THEN <<s>> ELSE <<SubSeq(s, 1, i - 1)>> \o Split(Drop(s, i), c)

\* The characters str.strip() removes (the ones the model's texts use).
Whitespace == {" ", TAB, NL}

\* str.strip(): s without its leading and trailing whitespace.
strip(s) ==
  IF \A i \in 1..Len(s) : s[i] \in Whitespace THEN <<>>
  ELSE LET first == CHOOSE i \in 1..Len(s) :
                      s[i] \notin Whitespace /\ \A j \in 1..(i - 1) : s[j] \in Whitespace
           last == CHOOSE i \in 1..Len(s) :
                      s[i] \notin Whitespace /\ \A j \in (i + 1)..Len(s) : s[j] \in Whitespace
       IN SubSeq(s, first, last)

DigitChars == <<"0", "1", "2", "3", "4", "5", "6", "7", "8", "9">>

RECURSIVE Digits(_)
\* str(n) for an int n >= 0.
Digits(n) == IF n < 10 THEN <<DigitChars[n + 1]>>
             ELSE Digits(n \div 10) \o <<DigitChars[(n % 10) + 1]>>

RECURSIVE Zeros(_)
Zeros(k) == IF k <= 0 THEN <<>> ELSE <<"0">> \o Zeros(k - 1)

\* A formatter that forgets the zero fill: "{n:d}".
ZeroPad_unpadded(n, w) == Digits(n)

\* format(n, "0<w>d"): str(n) left-padded with zeros to at least w characters.
ZeroPad(n, w) == Zeros(w - Len(Digits(n))) \o Digits(n)

\* ------------------------------------------------------------------ floats

\* Significant bits of a binary64 value.
MantissaBits == 53

\* The fraction of a float is held in FracLimbs limbs of LimbBits bits each,
\* most significant first: 80 fractional bits, enough to hold every binary64
\* value that is zero or at least 2^-27 exactly.
LimbBits == 16
FracLimbs == 5
LimbBase == 2 ^ LimbBits
FracBits == LimbBits * FracLimbs

ZeroFrac == [i \in 1..FracLimbs |-> 0]

\* int.bit_length() for 0 <= n < 2^31.
BitLen(n) ==
  IF n = 0 THEN 0
  ELSE CHOOSE k \in 1..31 : 2 ^ (k - 1) <= n /\ (k = 31 \/ n < 2 ^ k)

\* How many zero bits the fraction starts with.
LeadingZeros(f) ==
  IF \A i \in 1..FracLimbs : f[i] = 0 THEN FracBits
  ELSE LET i == CHOOSE j \in 1..FracLimbs : f[j] # 0 /\ \A k \in 1..(j - 1) : f[k] = 0
       IN LimbBits * (i - 1) + (LimbBits - BitLen(f[i]))

RECURSIVE CarryInto(_, _)
\* The carry limb i receives from the limbs after it, for limbs g not yet
\* reduced below LimbBase.
CarryInto(g, i) ==
  IF i = FracLimbs THEN 0 ELSE (g[i + 1] + CarryInto(g, i + 1)) \div LimbBase

\* ip + 0.g with every limb reduced below LimbBase and the carries propagated.
Normalise(ip, g) ==
  [int |-> ip + (g[1] + CarryInto(g, 1)) \div LimbBase,
   frac |-> [i \in 1..FracLimbs |-> (g[i] + CarryInto(g, i)) % LimbBase]]

\* The binary64 value nearest to the exact value ip + 0.f (+ a non-zero rest below
\* the last limb when sticky): round to nearest, ties to even, which is what every
\* float operation returns for its exact result.
RoundDouble(ip, f, sticky) ==
  LET keep == IF ip > 0 THEN MantissaBits - BitLen(ip)
              ELSE LeadingZeros(f) + MantissaBits
  IN IF keep >= FracBits THEN [int |-> ip, frac |-> f]
     ELSE LET q == keep \div LimbBits
              rb == keep % LimbBits
              w == 2 ^ (LimbBits - rb)
              half == w \div 2
              low == f[q + 1] % w
              rest == (low % half # 0) \/ (\E i \in (q + 2)..FracLimbs : f[i] # 0) \/ sticky
              lsb == IF rb > 0 THEN (f[q + 1] \div w) % 2
                     ELSE IF q > 0 THEN f[q] % 2 ELSE ip % 2
              up == low >= half /\ (rest \/ lsb = 1)
              cut == [i \in 1..FracLimbs |->
                        IF i <= q THEN f[i] ELSE IF i = q + 1 THEN f[i] - low ELSE 0]
          IN IF up THEN Normalise(ip, [cut EXCEPT ![q + 1] = @ + w])
             ELSE [int |-> ip, frac |-> cut]

RECURSIVE DecimalRest(_, _, _)
\* What is left of r/den after i limbs of its binary expansion (times den).
DecimalRest(r, den, i) ==
  IF i = 0 THEN r ELSE (DecimalRest(r, den, i - 1) * LimbBase) % den

\* float("<ip>.<num over den>"): the binary64 value nearest to ip + num/den,
\* for 0 <= num < den <= 10000.
Float(ip, num, den) ==
  RoundDouble(ip,
              [i \in 1..FracLimbs |-> (DecimalRest(num, den, i - 1) * LimbBase) \div den],
              DecimalRest(num, den, FracLimbs) # 0)

\* A decimal literal ip + num/den, 0 <= num < den.
Lit(ip, num, den) == [ip |-> ip, num |-> num, den |-> den]

FloatOf(lit) == Float(lit.ip, lit.num, lit.den)

\* x * m for a float x >= 0 and a whole number 1 <= m <= 1000.
FloatMul(x, m) ==
  LET p == Normalise(x.int * m, [i \in 1..FracLimbs |-> x.frac[i] * m])
  IN RoundDouble(p.int, p.frac, FALSE)

\* x + y for floats x, y >= 0.
FloatAdd(x, y) ==
  LET s == Normalise(x.int + y.int, [i \in 1..FracLimbs |-> x.frac[i] + y.frac[i]])
  IN RoundDouble(s.int, s.frac, FALSE)

\* x // m for a float x >= 0 and a whole number m >= 1 (a whole-valued float).
FloatFloorDiv(x, m) == [int |-> x.int \div m, frac |-> ZeroFrac]

\* x % m for a float x >= 0 and a whole number m >= 1 (fmod: exact).
FloatMod(x, m) == [int |-> x.int % m, frac |-> x.frac]

\* int(x): truncation toward zero.
IntOf(x) == x.int

\* --------------------------------------------------------- format_time_srt

\* f"{hours:02d}:{minutes:02d}:{secs:02d},{millis:03d}"
format_time_srt(seconds) ==
  LET hours == IntOf(FloatFloorDiv(seconds, 3600))
      minutes == IntOf(FloatFloorDiv(FloatMod(seconds, 3600), 60))
      secs == IntOf(FloatMod(seconds, 60))
      millis == IntOf(FloatMul(FloatMod(seconds, 1), 1000))
  IN ZeroPad(hours, 2) \o <<":">> \o ZeroPad(minutes, 2) \o <<":">>
       \o ZeroPad(secs, 2) \o <<",">> \o ZeroPad(millis, 3)

\* ------------------------------------------------------------- renderers

Str_Arrow == <<" ", "-", "-", ">", " ">>

\* The end of a cue: entry['start'] + entry['duration'].
EndOf(entry) == FloatAdd(entry.start, entry.duration)

\* A loop body that skips an entry with no text, as create_markdown's does.
srt_block_lines_skip_empty(i, entry) ==
  IF strip(entry.text) = <<>> THEN <<>>
  ELSE << Digits(i),
          format_time_srt(entry.start) \o Str_Arrow \o format_time_srt(EndOf(entry)),
          strip(entry.text),
          <<>> >>

\* The four lines the loop body of create_srt appends for entry number i.
srt_block_lines(i, entry) ==
  << Digits(i),
     format_time_srt(entry.start) \o Str_Arrow \o format_time_srt(EndOf(entry)),
     strip(entry.text),
     <<>> >>

\* srt_lines after the loop over enumerate(transcript_data, 1).
srt_lines(data) == Concat([i \in 1..Len(data) |-> srt_block_lines(i, data[i])])

create_srt(data) == Join(srt_lines(data), <<NL>>)

\* A filter that lets every text through.
Truthy_always(text) == TRUE

\* `if text:` is true of a non-empty str.
Truthy(text) == text # <<>>

\* md_lines after the loop: the non-empty trimmed texts.
md_lines(data) == SelectSeq([i \in 1..Len(data) |-> strip(data[i].text)], Truthy)

create_markdown(data) == Join(md_lines(data), <<NL>>)

\* A loop that leaves the text as fetched, untrimmed.
json_data_untrimmed(data) ==
  [i \in 1..Len(data) |->
     << <<Str_in_ts, format_time_srt(data[i].start)>>,
        <<Str_out_ts, format_time_srt(EndOf(data[i]))>>,
        <<Str_text, data[i].text>> >>]

\* json_data after the loop: one dict per entry, keys in insertion order.
json_data(data) ==
  [i \in 1..Len(data) |->
     << <<Str_in_ts, format_time_srt(data[i].start)>>,
        <<Str_out_ts, format_time_srt(EndOf(data[i]))>>,
        <<Str_text, strip(data[i].text)>> >>]

\* json.dumps' escape of one character with ensure_ascii=False: the quote, the
\* backslash and the control characters are escaped, everything else is kept.
JsonEscapeChar(c) ==
  IF c = QUOTE THEN <<BACKSLASH, QUOTE>>
  ELSE IF c = BACKSLASH THEN <<BACKSLASH, BACKSLASH>>
  ELSE IF c = NL THEN <<BACKSLASH, "n">>
  ELSE IF c = TAB THEN <<BACKSLASH, "t">>
  ELSE <<c>>

\* json.dumps of a str.
JsonString(str) ==
  <<QUOTE>> \o Concat([i \in 1..Len(str) |-> JsonEscapeChar(str[i])]) \o <<QUOTE>>

Indent(k) == [i \in 1..k |-> " "]

\* json.dumps of one dict of str values at nesting level 1, indent=2.
JsonObject(pairs) ==
  <<"{", NL>>
    \o Join([i \in 1..Len(pairs) |->
               Indent(4) \o JsonString(pairs[i][1]) \o <<":", " ">> \o JsonString(pairs[i][2])],
            <<",", NL>>)
    \o <<NL>> \o Indent(2) \o <<"}">>

\* json.dumps(items, indent=2, ensure_ascii=False) of a list of dicts.
JsonDumps(items) ==
  IF items = <<>> THEN <<"[", "]">>
  ELSE <<"[", NL>>
         \o Join([i \in 1..Len(items) |-> Indent(2) \o JsonObject(items[i])], <<",", NL>>)
         \o <<NL, "]">>

create_json(data) == JsonDumps(json_data(data))

\* ------------------------------------------------------- extract_video_id

UpperLetters == <<"A", "B", "C", "D", "E", "F", "G", "H", "I", "J", "K", "L", "M",
                  "N", "O", "P", "Q", "R", "S", "T", "U", "V", "W", "X", "Y", "Z">>
LowerLetters == <<"a", "b", "c", "d", "e", "f", "g", "h", "i", "j", "k", "l", "m",
                  "n", "o", "p", "q", "r", "s", "t", "u", "v", "w", "x", "y", "z">>
Letters == {UpperLetters[i] : i \in 1..26} \cup {LowerLetters[i] : i \in 1..26}
Digit == {DigitChars[i] : i \in 1..10}

\* str.lower() of one character.
LowerChar(c) ==
  IF \E i \in 1..26 : UpperLetters[i] = c
  THEN LowerLetters[CHOOSE i \in 1..26 : UpperLetters[i] = c]
  ELSE c

\* str.lower()
lower(s) == [i \in 1..Len(s) |-> LowerChar(s[i])]

\* str.isalnum(): not empty, letters and digits only.
isalnum(s) == s # <<>> /\ \A i \in 1..Len(s) : s[i] \in Letters \cup Digit

\* None, and a str value.
PyNone == [type |-> "NoneType", val |-> <<>>]
PyStr(s) == [type |-> "str", val |-> s]

\* bool(v) of None or a str.
IsTruthy(v) == v.type = "str" /\ v.val # <<>>

\* The characters a URL scheme is made of.
SchemeChars == Letters \cup Digit \cup {"+", "-", "."}

\* s.partition(c): what is before the first c and what is after it (all of s and
\* nothing when s holds no c).
Before(s, c) == IF FindAny(s, {c}) = 0 THEN s ELSE SubSeq(s, 1, FindAny(s, {c}) - 1)
After(s, c) == IF FindAny(s, {c}) = 0 THEN <<>> ELSE Drop(s, FindAny(s, {c}))

\* urllib.parse.urlparse(url): scheme, netloc, path, query and fragment, for a
\* URL without parameters (";") and without brackets.
urlparse(url) ==
  LET colon == FindAny(url, {":"})
      has_scheme == /\ colon > 1
                    /\ url[1] \in Letters
                    /\ \A i \in 1..(colon - 1) : url[i] \in SchemeChars
      scheme == IF has_scheme THEN lower(SubSeq(url, 1, colon - 1)) ELSE <<>>
      rest == IF has_scheme THEN Drop(url, colon) ELSE url
      has_netloc == StartsWith(rest, <<"/", "/">>)
      body == IF has_netloc THEN Drop(rest, 2) ELSE rest
      delim == FindAny(body, {"/", "?", "#"})
      netloc == IF ~has_netloc THEN <<>>
                ELSE IF delim = 0 THEN body ELSE SubSeq(body, 1, delim - 1)
      tail == IF ~has_netloc THEN body ELSE IF delim = 0 THEN <<>> ELSE Drop(body, delim - 1)
      nofrag == Before(tail, "#")
  IN [scheme |-> scheme, netloc |-> netloc, path |-> Before(nofrag, "?"),
      query |-> After(nofrag, "?"), fragment |-> After(tail, "#")]

\* ParseResult.hostname: the netloc without user info and port, in lower case;
\* None when it is empty.
hostname(netloc) ==
  LET at == IF \E i \in 1..Len(netloc) : netloc[i] = "@"
            THEN Max({i \in 1..Len(netloc) : netloc[i] = "@"}) ELSE 0
      host == Before(Drop(netloc, at), ":")
  IN IF host = <<>> THEN PyNone ELSE PyStr(lower(host))

\* urllib.parse.unquote_plus for text without percent escapes: "+" is a space.
unquote_plus(s) == [i \in 1..Len(s) |-> IF s[i] = "+" THEN " " ELSE s[i]]

\* parse_qs(query).get(name, [None])[0]: the first non-blank value of the field.
parse_qs_first(query, name) ==
  LET fields == Split(query, "&")
      hits == {i \in 1..Len(fields) :
                 /\ FindAny(fields[i], {"="}) # 0
                 /\ unquote_plus(Before(fields[i], "=")) = name
                 /\ After(fields[i], "=") # <<>>}
  IN IF hits = {} THEN PyNone ELSE PyStr(unquote_plus(After(fields[Min(hits)], "=")))

Host_www == <<"w", "w", "w", ".", "y", "o", "u", "t", "u", "b", "e", ".", "c", "o", "m">>
Host_bare == <<"y", "o", "u", "t", "u", "b", "e", ".", "c", "o", "m">>
Host_mobile == <<"m", ".", "y", "o", "u", "t", "u", "b", "e", ".", "c", "o", "m">>
Host_short == <<"y", "o", "u", "t", "u", ".", "b", "e">>
Path_watch == <<"/", "w", "a", "t", "c", "h">>
Path_embed == <<"/", "e", "m", "b", "e", "d", "/">>

\* The host list without the mobile site.
YoutubeHosts_no_mobile == {Host_www, Host_bare}

YoutubeHosts == {Host_www, Host_bare, Host_mobile}

extract_video_id(url_or_id) ==
  IF Len(url_or_id) = 11 /\ isalnum(url_or_id) THEN PyStr(url_or_id)
  ELSE LET parsed == urlparse(url_or_id)
           host == hostname(parsed.netloc)
       IN IF host.type = "str" /\ host.val \in YoutubeHosts
          THEN IF parsed.path = Path_watch THEN parse_qs_first(parsed.query, <<"v">>)
               ELSE IF StartsWith(parsed.path, Path_embed)
                 THEN PyStr(Split(parsed.path, "/")[3])
               ELSE PyNone
          ELSE IF host.type = "str" /\ host.val \in {Host_short}
            THEN PyStr(Drop(parsed.path, 1))
          ELSE PyNone

\* ------------------------------------------------------------------- state

VARIABLES
  pc,               \* where the running function or main stands
  literal,          \* the decimal text the seconds value was read from
  seconds,          \* format_time_srt's argument, a float
  formatted,        \* format_time_srt's result
  transcript_data,  \* the renderers' argument: a list of entries
  rendered,         \* which renderers have returned
  srt_content,      \* create_srt's result
  md_content,       \* create_markdown's result
  json_content,     \* create_json's result
  argv,             \* sys.argv[1:]
  local_files,      \* the paths os.path.isfile is true of
  lib_installed,    \* whether youtube_transcript_api can be imported
  vid,              \* main's vid
  basename,         \* main's basename
  api_calls,        \* the calls made to the transcript API, with their outcome
  raw_data,         \* main's raw_data
  files,            \* the three output files: status and content
  stdout,           \* what was printed to sys.stdout
  stderr,           \* what was printed to sys.stderr
  exit_code         \* the process's exit status, once it has exited

fmtVars == <<literal, seconds, formatted>>
renVars == <<transcript_data, rendered, srt_content, md_content, json_content>>
mainVars == <<argv, local_files, lib_installed, vid, basename, api_calls, raw_data,
              files, stdout, stderr, exit_code>>
vars == <<pc, fmtVars, renVars, mainVars>>

Kinds == {"srt", "md", "json"}

NoFiles == [k \in Kinds |-> [status |-> "absent", content |-> <<>>]]

MainIdle ==
  /\ argv = <<>> /\ local_files = {} /\ lib_installed = TRUE
  /\ vid = PyNone /\ basename = <<>> /\ api_calls = <<>> /\ raw_data = <<>>
  /\ files = NoFiles /\ stdout = <<>> /\ stderr = <<>> /\ exit_code = <<>>

FmtIdle == literal = Lit(0, 0, 1) /\ seconds = FloatOf(Lit(0, 0, 1)) /\ formatted = <<>>
RenIdle == /\ transcript_data = <<>> /\ rendered = {}
           /\ srt_content = <<>> /\ md_content = <<>> /\ json_content = <<>>

\* ------------------------------------------- specification: the formatter

\* Whole seconds around every unit boundary of the format.
WholeSeconds == {0, 1, 2, 4, 59, 60, 61, 3599, 3600, 3661, 7199, 86399,
                 359999, 360000, 360001, 3600000}

\* Decimal fractions of a second, as transcripts carry them.
Fractions == {<<0, 1>>, <<5, 10>>, <<56, 100>>, <<1, 1000>>, <<9, 1000>>,
              <<567, 1000>>, <<999, 1000>>, <<9, 10000>>, <<9999, 10000>>}

Literals == {Lit(w, f[1], f[2]) : w \in WholeSeconds, f \in Fractions}

FmtInit ==
  /\ pc = "format_call"
  /\ literal \in Literals
  /\ seconds = FloatOf(literal)
  /\ formatted = <<>>
  /\ RenIdle /\ MainIdle

\* format_time_srt(seconds) runs and returns.
Format ==
  /\ pc = "format_call"
  /\ formatted' = format_time_srt(seconds)
  /\ pc' = "format_done"
  /\ UNCHANGED <<literal, seconds, renVars, mainVars>>

FmtNext == Format

SpecFmt == FmtInit /\ [][FmtNext]_vars

\* ------------------------------------------- specification: the renderers

Txt_hi == <<" ", "h", "i", " ">>
Txt_empty == <<>>
Txt_blank == <<" ", TAB, NL>>
Txt_two_lines == <<"a", NL, "b">>
Txt_quoted == <<QUOTE, "é", BACKSLASH, "n", TAB, "z", " ">>

Entry(start, duration, text) == [start |-> start, duration |-> duration, text |-> text]

\* The entries transcripts are made of: the spec's end-to-end pair, a cue whose
\* end is not a decimal sum, whitespace-only and multi-line text, text that JSON
\* must escape, and a cue that ends at the hundredth hour.
Entries ==
  { Entry(Float(0, 0, 1), Float(2, 0, 1), Txt_hi),
    Entry(Float(2, 0, 1), Float(1, 5, 10), Txt_empty),
    Entry(Float(3661, 999, 1000), Float(0, 1, 1000), Txt_two_lines),
    Entry(Float(61, 5, 10), Float(4, 56, 100), Txt_blank),
    Entry(Float(0, 1, 10), Float(0, 2, 10), Txt_quoted),
    Entry(Float(359999, 5, 10), Float(0, 5, 10), Txt_hi) }

Transcripts == UNION {[1..n -> Entries] : n \in 0..MaxEntries}

RenInit ==
  /\ pc = "render"
  /\ transcript_data \in Transcripts
  /\ rendered = {}
  /\ srt_content = <<>> /\ md_content = <<>> /\ json_content = <<>>
  /\ FmtIdle /\ MainIdle

RenderSrt ==
  /\ pc = "render" /\ "srt" \notin rendered
  /\ srt_content' = create_srt(transcript_data)
  /\ rendered' = rendered \cup {"srt"}
  /\ UNCHANGED <<pc, transcript_data, md_content, json_content, fmtVars, mainVars>>

RenderMarkdown ==
  /\ pc = "render" /\ "md" \notin rendered
  /\ md_content' = create_markdown(transcript_data)
  /\ rendered' = rendered \cup {"md"}
  /\ UNCHANGED <<pc, transcript_data, srt_content, json_content, fmtVars, mainVars>>

RenderJson ==
  /\ pc = "render" /\ "json" \notin rendered
  /\ json_content' = create_json(transcript_data)
  /\ rendered' = rendered \cup {"json"}
  /\ UNCHANGED <<pc, transcript_data, srt_content, md_content, fmtVars, mainVars>>

RenNext == RenderSrt \/ RenderMarkdown \/ RenderJson

SpecRender == RenInit /\ [][RenNext]_vars

\* ------------------------------------------------------ specification: main

Scheme_https == <<"h", "t", "t", "p", "s", ":", "/", "/">>
Scheme_http == <<"h", "t", "t", "p", ":", "/", "/">>
Schemes == {Scheme_https, Scheme_http}

Id_mixed == <<"d", "Q", "w", "4", "w", "9", "W", "g", "X", "c", "Q">>
Id_digits == <<"0", "1", "2", "3", "4", "5", "6", "7", "8", "9", "a">>
VideoIds == {Id_mixed, Id_digits}

\* The four shapes of reference the extractor is specified for.
RawId(id) == id
WatchUrl(scheme, host, id) == scheme \o host \o <<"/", "w", "a", "t", "c", "h", "?", "v", "=">> \o id
EmbedUrl(scheme, host, id) == scheme \o host \o Path_embed \o id
ShortUrl(scheme, id) == scheme \o Host_short \o <<"/">> \o id

KnownHosts == {Host_www, Host_bare, Host_mobile}

KnownShapes(id) ==
  {RawId(id)}
    \cup {WatchUrl(sc, h, id) : sc \in Schemes, h \in KnownHosts}
    \cup {EmbedUrl(sc, h, id) : sc \in Schemes, h \in KnownHosts}
    \cup {ShortUrl(sc, id) : sc \in Schemes}

\* Known shapes written another way: more query fields, a fragment, capitals.
Variants(id) ==
  { Scheme_https \o Host_www \o <<"/", "w", "a", "t", "c", "h", "?", "t", "=", "5", "&", "v", "=">> \o id,
    ShortUrl(Scheme_https, id) \o <<"?", "t", "=", "5", "#", "t", "o", "p">>,
    <<"H", "T", "T", "P", "S", ":", "/", "/", "W", "W", "W", ".", "Y", "O", "U", "T", "U", "B", "E", ".", "C", "O", "M">> \o Path_embed \o id }

Recognised == UNION {KnownShapes(id) \cup Variants(id) : id \in VideoIds}

\* References of no known shape, or of a known shape that carries no video ID.
Unrecognised ==
  { <<>>,
    <<"h", "e", "l", "l", "o">>,
    <<"a", "b", "c", "-", "d", "e", "f", "_", "1", "2", "3">>,
    Host_short \o <<"/">> \o Id_mixed,
    Scheme_https \o <<"e", "x", "a", "m", "p", "l", "e", ".", "c", "o", "m">> \o <<"/", "w", "a", "t", "c", "h", "?", "v", "=">> \o Id_mixed,
    Scheme_https \o Host_www \o <<"/", "s", "h", "o", "r", "t", "s", "/">> \o Id_mixed,
    Scheme_https \o Host_www \o Path_watch,
    Scheme_https \o Host_www \o <<"/", "w", "a", "t", "c", "h", "?", "v", "=">>,
    Scheme_https \o Host_www \o <<"/", "e", "m", "b", "e", "d">>,
    Scheme_https \o Host_www \o Path_embed,
    Scheme_https \o Host_www \o Path_embed \o <<"a", "b", "c">>,
    Scheme_https \o Host_www \o <<"/", "w", "a", "t", "c", "h", "?", "v", "=">> \o <<"a", "b", "c">>,
    Scheme_https \o Host_short,
    Scheme_https \o Host_short \o <<"/">>,
    Scheme_https \o Host_short \o <<"/">> \o <<"a", "b", "c">>,
    Scheme_https \o Host_short \o <<"/">> \o Id_mixed \o <<"/", "e", "x", "t", "r", "a">> }

Sources == Recognised \cup Unrecognised

Path_clip == <<"v", "i", "d", "e", "o", "s", "/", "c", "l", "i", "p", ".", "e", "n", ".", "m", "p", "4">>

\* Path(p).stem: the last component of the path without its last suffix.
Stem(path) ==
  LET slashes == {i \in 1..Len(path) : path[i] = "/"}
      name == IF slashes = {} THEN path ELSE Drop(path, Max(slashes))
      dots == {i \in 2..Len(name) : name[i] = "."}
  IN IF dots = {} THEN name ELSE SubSeq(name, 1, Max(dots) - 1)

\* What the fetch can return: nothing, the two entries of the end-to-end example,
\* a two-line cue, and data with an entry that has no 'text' key.
FetchedData ==
  { <<>>,
    << Entry(Float(0, 0, 1), Float(2, 0, 1), Txt_hi),
       Entry(Float(2, 0, 1), Float(1, 5, 10), Txt_empty) >>,
    << Entry(Float(3661, 999, 1000), Float(0, 1, 1000), Txt_two_lines) >>,
    << [start |-> Float(0, 0, 1), duration |-> Float(2, 0, 1)] >> }

\* Whether every entry has the keys the renderers read; without one of them a
\* renderer raises KeyError.
WellFormed(data) == \A i \in 1..Len(data) : {"start", "duration", "text"} \subseteq DOMAIN data[i]

\* The renderer main calls for each file.
Render(kind, data) ==
  CASE kind = "srt" -> create_srt(data)
    [] kind = "md" -> create_markdown(data)
    [] kind = "json" -> create_json(data)

\* The order main writes the files in, the subtitle file last.
WriteOrder_srt_last == <<"md", "json", "srt">>

\* The order main writes the files in.
WriteOrder == <<"srt", "md", "json">>

\* The position after the write of file number k.
AfterWrite(k) == IF k < Len(WriteOrder) THEN WriteOrder[k + 1] ELSE "saved"

Call(name, ok) == [call |-> name, ok |-> ok]

Message(msg, at) == [msg |-> msg, at |-> at]

\* sys.exit(1) after a message on stderr; an uncaught exception ends the process
\* the same way, the interpreter printing the traceback.
ExitWith(msg, at) ==
  /\ stderr' = Append(stderr, Message(msg, at))
  /\ exit_code' = <<1>>
  /\ pc' = "done"

\* A handler that swallows the error: `except Exception: pass`, and main returns.
Handler_swallow(at) ==
  /\ stderr' = stderr
  /\ exit_code' = <<0>>
  /\ pc' = "done"

\* The handler of main's try block: print the error, sys.exit(1).
Handler(at) == ExitWith("error", at)

MainInit ==
  /\ pc = "main"
  /\ argv \in {<<>>} \cup {<<src>> : src \in Sources}
               \cup {<<src, Path_clip>> : src \in {Id_mixed, ShortUrl(Scheme_https, Id_digits)}}
  /\ local_files \in {{}, {Path_clip}}
  /\ Len(argv) < 2 => local_files = {}
  /\ lib_installed \in BOOLEAN
  /\ vid = PyNone /\ basename = <<>> /\ api_calls = <<>> /\ raw_data = <<>>
  /\ files = NoFiles /\ stdout = <<>> /\ stderr = <<>> /\ exit_code = <<>>
  /\ FmtIdle /\ RenIdle

\* if len(sys.argv) < 2: usage, sys.exit(1)
CheckUsage ==
  /\ pc = "main"
  /\ IF Len(argv) < 1
     THEN ExitWith("usage", "main") /\ UNCHANGED stdout
     ELSE pc' = "import" /\ UNCHANGED <<stdout, stderr, exit_code>>
  /\ UNCHANGED <<argv, local_files, lib_installed, vid, basename, api_calls, raw_data, files>>
  /\ UNCHANGED <<fmtVars, renVars>>

\* from youtube_transcript_api import YouTubeTranscriptApi
Import ==
  /\ pc = "import"
  /\ IF lib_installed
     THEN pc' = "extract" /\ UNCHANGED <<stdout, stderr, exit_code>>
     ELSE ExitWith("not_installed", "import") /\ UNCHANGED stdout
  /\ UNCHANGED <<argv, local_files, lib_installed, vid, basename, api_calls, raw_data, files>>
  /\ UNCHANGED <<fmtVars, renVars>>

\* vid = extract_video_id(src); if not vid: warning, sys.exit(1)
Extract ==
  /\ pc = "extract"
  /\ vid' = extract_video_id(argv[1])
  /\ IF IsTruthy(vid')
     THEN pc' = "mkdir" /\ UNCHANGED <<stdout, stderr, exit_code>>
     ELSE ExitWith("no_video_id", "extract") /\ UNCHANGED stdout
  /\ UNCHANGED <<argv, local_files, lib_installed, basename, api_calls, raw_data, files>>
  /\ UNCHANGED <<fmtVars, renVars>>

\* outdir.mkdir(exist_ok=True) returns.
MkdirOk ==
  /\ pc = "mkdir"
  /\ pc' = "names"
  /\ UNCHANGED <<argv, local_files, lib_installed, vid, basename, api_calls, raw_data,
                 files, stdout, stderr, exit_code>>
  /\ UNCHANGED <<fmtVars, renVars>>

\* outdir.mkdir(exist_ok=True) raises OSError, outside the try block.
MkdirFail ==
  /\ pc = "mkdir"
  /\ ExitWith("traceback", "mkdir")
  /\ UNCHANGED <<argv, local_files, lib_installed, vid, basename, api_calls, raw_data,
                 files, stdout>>
  /\ UNCHANGED <<fmtVars, renVars>>

\* basename, the three paths and the four progress lines.
Names ==
  /\ pc = "names"
  /\ basename' = IF Len(argv) > 1 /\ argv[2] \in local_files THEN Stem(argv[2]) ELSE vid.val
  /\ stdout' = stdout \o <<Message("downloading", "names"), Message("path", "srt"),
                           Message("path", "md"), Message("path", "json")>>
  /\ pc' = "list"
  /\ UNCHANGED <<argv, local_files, lib_installed, vid, api_calls, raw_data,
                 files, stderr, exit_code>>
  /\ UNCHANGED <<fmtVars, renVars>>

\* ytt_api.list(vid) returns the transcript list.
ListOk ==
  /\ pc = "list"
  /\ api_calls' = Append(api_calls, Call("list", TRUE))
  /\ pc' = "find_transcript"
  /\ UNCHANGED <<argv, local_files, lib_installed, vid, basename, raw_data,
                 files, stdout, stderr, exit_code>>
  /\ UNCHANGED <<fmtVars, renVars>>

\* ytt_api.list(vid) raises.
ListFail ==
  /\ pc = "list"
  /\ api_calls' = Append(api_calls, Call("list", FALSE))
  /\ Handler("list")
  /\ UNCHANGED <<argv, local_files, lib_installed, vid, basename, raw_data, files, stdout>>
  /\ UNCHANGED <<fmtVars, renVars>>

\* transcript_list.find_transcript(['en']) returns a transcript.
FindTranscriptOk ==
  /\ pc = "find_transcript"
  /\ api_calls' = Append(api_calls, Call("find_transcript", TRUE))
  /\ pc' = "fetch"
  /\ UNCHANGED <<argv, local_files, lib_installed, vid, basename, raw_data,
                 files, stdout, stderr, exit_code>>
  /\ UNCHANGED <<fmtVars, renVars>>

\* transcript_list.find_transcript(['en']) raises: the bare except prints the
\* notice and goes on to the generated transcript.
FindTranscriptFail ==
  /\ pc = "find_transcript"
  /\ api_calls' = Append(api_calls, Call("find_transcript", FALSE))
  /\ stdout' = Append(stdout, Message("trying_generated", "find_transcript"))
  /\ pc' = "find_generated_transcript"
  /\ UNCHANGED <<argv, local_files, lib_installed, vid, basename, raw_data,
                 files, stderr, exit_code>>
  /\ UNCHANGED <<fmtVars, renVars>>

\* transcript_list.find_generated_transcript(['en']) returns a transcript.
FindGeneratedOk ==
  /\ pc = "find_generated_transcript"
  /\ api_calls' = Append(api_calls, Call("find_generated_transcript", TRUE))
  /\ pc' = "fetch"
  /\ UNCHANGED <<argv, local_files, lib_installed, vid, basename, raw_data,
                 files, stdout, stderr, exit_code>>
  /\ UNCHANGED <<fmtVars, renVars>>

\* A fallback that, failing too, goes on to the fetch.
FindGeneratedFail_goes_on ==
  /\ pc = "find_generated_transcript"
  /\ api_calls' = Append(api_calls, Call("find_generated_transcript", FALSE))
  /\ pc' = "fetch"
  /\ UNCHANGED <<argv, local_files, lib_installed, vid, basename, raw_data,
                 files, stdout, stderr, exit_code>>
  /\ UNCHANGED <<fmtVars, renVars>>

\* transcript_list.find_generated_transcript(['en']) raises.
FindGeneratedFail ==
  /\ pc = "find_generated_transcript"
  /\ api_calls' = Append(api_calls, Call("find_generated_transcript", FALSE))
  /\ Handler("find_generated_transcript")
  /\ UNCHANGED <<argv, local_files, lib_installed, vid, basename, raw_data, files, stdout>>
  /\ UNCHANGED <<fmtVars, renVars>>

\* transcript.fetch().to_raw_data() returns the entries.
FetchOk ==
  /\ pc = "fetch"
  /\ \E data \in FetchedData : raw_data' = data
  /\ api_calls' = Append(api_calls, Call("fetch", TRUE))
  /\ pc' = WriteOrder[1]
  /\ UNCHANGED <<argv, local_files, lib_installed, vid, basename,
                 files, stdout, stderr, exit_code>>
  /\ UNCHANGED <<fmtVars, renVars>>

\* transcript.fetch() raises.
FetchFail ==
  /\ pc = "fetch"
  /\ api_calls' = Append(api_calls, Call("fetch", FALSE))
  /\ Handler("fetch")
  /\ UNCHANGED <<argv, local_files, lib_installed, vid, basename, raw_data, files, stdout>>
  /\ UNCHANGED <<fmtVars, renVars>>

\* The renderer of file number k raises (an entry lacks a key): nothing is written.
RenderFail(k) ==
  /\ pc = WriteOrder[k]
  /\ ~WellFormed(raw_data)
  /\ Handler(WriteOrder[k])
  /\ UNCHANGED <<argv, local_files, lib_installed, vid, basename, api_calls, raw_data,
                 files, stdout>>
  /\ UNCHANGED <<fmtVars, renVars>>

\* File number k is rendered and write_text writes it.
WriteOk(k) ==
  /\ pc = WriteOrder[k]
  /\ WellFormed(raw_data)
  /\ files' = [files EXCEPT ![WriteOrder[k]] =
                 [status |-> "written", content |-> Render(WriteOrder[k], raw_data)]]
  /\ pc' = AfterWrite(k)
  /\ UNCHANGED <<argv, local_files, lib_installed, vid, basename, api_calls, raw_data,
                 stdout, stderr, exit_code>>
  /\ UNCHANGED <<fmtVars, renVars>>

\* File number k is rendered and write_text raises OSError: before the file is
\* opened (nothing on disk) or after (a file with part of the text, or none).
WriteFail(k) ==
  /\ pc = WriteOrder[k]
  /\ WellFormed(raw_data)
  /\ \E left \in {"absent", "partial"} :
       files' = [files EXCEPT ![WriteOrder[k]] = [status |-> left, content |-> <<>>]]
  /\ Handler(WriteOrder[k])
  /\ UNCHANGED <<argv, local_files, lib_installed, vid, basename, api_calls, raw_data, stdout>>
  /\ UNCHANGED <<fmtVars, renVars>>

\* print("Transcript files saved to:", outdir); main returns, exit status 0.
Saved ==
  /\ pc = "saved"
  /\ stdout' = Append(stdout, Message("saved", "saved"))
  /\ exit_code' = <<0>>
  /\ pc' = "done"
  /\ UNCHANGED <<argv, local_files, lib_installed, vid, basename, api_calls, raw_data,
                 files, stderr>>
  /\ UNCHANGED <<fmtVars, renVars>>

Next ==
  \/ CheckUsage \/ Import \/ Extract
  \/ MkdirOk \/ MkdirFail \/ Names
  \/ ListOk \/ ListFail
  \/ FindTranscriptOk \/ FindTranscriptFail
  \/ FindGeneratedOk \/ FindGeneratedFail
  \/ FetchOk \/ FetchFail
  \/ \E k \in 1..Len(WriteOrder) : RenderFail(k) \/ WriteOk(k) \/ WriteFail(k)
  \/ Saved

Spec == MainInit /\ [][Next]_vars

\* ------------------------------------------------ reading the outputs back


\* The text t is s without its leading and trailing whitespace: s is
\* whitespace, t, whitespace, and t neither starts nor ends with whitespace.
IsTrimOf(t, s) ==
  \E i \in 0..Len(s) :
    /\ i + Len(t) <= Len(s)
    /\ SubSeq(s, i + 1, i + Len(t)) = t
    /\ \A k \in 1..i : s[k] \in Whitespace
    /\ \A k \in (i + Len(t) + 1)..Len(s) : s[k] \in Whitespace
    /\ t # <<>> => (t[1] \notin Whitespace /\ t[Len(t)] \notin Whitespace)

Trimmed(s) ==
  CHOOSE t \in {SubSeq(s, i, j) : i \in 1..(Len(s) + 1), j \in 0..Len(s)} : IsTrimOf(t, s)

\* How many lines a text has: none when empty, else one more than its newlines.
LineCount(s) == IF s = <<>> THEN 0 ELSE 1 + Cardinality({i \in 1..Len(s) : s[i] = NL})

NoFailure == [ok |-> FALSE, val |-> <<>>, next |-> 0]

JsonWhitespace == {" ", NL, TAB}

\* The first position from i on that holds no JSON whitespace (Len(s) + 1: the end).
SkipWs(s, i) ==
  CHOOSE j \in i..(Len(s) + 1) :
    /\ j = Len(s) + 1 \/ s[j] \notin JsonWhitespace
    /\ \A k \in i..(j - 1) : s[k] \in JsonWhitespace

CharAt(s, i) == IF i >= 1 /\ i <= Len(s) THEN s[i] ELSE "EOF"

\* How many backslashes stand directly before position j, looking back to lo.
BackslashRun(s, lo, j) ==
  CHOOSE r \in 0..(j - lo) :
    /\ r = j - lo \/ s[j - 1 - r] # BACKSLASH
    /\ \A k \in 1..r : s[j - k] = BACKSLASH

JsonUnescapeChar(c) == IF c = "n" THEN NL ELSE IF c = "t" THEN TAB ELSE c

\* The str a JSON string body stands for; a raw control character or an unknown
\* escape is an error, as it is for json.loads.
JsonUnescape(raw) ==
  LET intro == {q \in 1..Len(raw) : raw[q] = BACKSLASH /\ BackslashRun(raw, 1, q) % 2 = 0}
      kept == (1..Len(raw)) \ intro
      nth(n) == CHOOSE q \in kept : Cardinality({r \in kept : r < q}) = n - 1
      valid == /\ \A q \in intro :
                    q < Len(raw) /\ raw[q + 1] \in {QUOTE, BACKSLASH, "/", "n", "t"}
               /\ \A q \in kept : raw[q] \notin {NL, TAB}
  IN [ok |-> valid,
      val |-> IF valid
              THEN [n \in 1..Cardinality(kept) |->
                      IF (nth(n) - 1) \in intro THEN JsonUnescapeChar(raw[nth(n)])
                      ELSE raw[nth(n)]]
              ELSE <<>>]

\* Whether the string opened at position i closes at position j: a quote that no
\* backslash escapes.
ClosesString(s, i, j) == s[j] = QUOTE /\ BackslashRun(s, i + 1, j) % 2 = 0

\* A JSON string starting at position i.
ParseString(s, i) ==
  IF CharAt(s, i) # QUOTE THEN NoFailure
  ELSE IF ~\E j \in (i + 1)..Len(s) : ClosesString(s, i, j) THEN NoFailure
  ELSE LET j == CHOOSE c \in (i + 1)..Len(s) :
                  ClosesString(s, i, c) /\ \A k \in (i + 1)..(c - 1) : ~ClosesString(s, i, k)
           u == JsonUnescape(SubSeq(s, i + 1, j - 1))
       IN IF u.ok THEN [ok |-> TRUE, val |-> u.val, next |-> j + 1] ELSE NoFailure

RECURSIVE ParsePairs(_, _, _)
\* The "key": "value" pairs of an object from position i on, up to its brace.
ParsePairs(s, i, acc) ==
  LET k == ParseString(s, i)
      colon == SkipWs(s, k.next)
      v == ParseString(s, SkipWs(s, colon + 1))
      after == SkipWs(s, v.next)
  IN IF ~k.ok \/ CharAt(s, colon) # ":" THEN NoFailure
     ELSE IF ~v.ok THEN NoFailure
     ELSE IF CharAt(s, after) = "}"
       THEN [ok |-> TRUE, val |-> Append(acc, <<k.val, v.val>>), next |-> after + 1]
     ELSE IF CharAt(s, after) = ","
       THEN ParsePairs(s, SkipWs(s, after + 1), Append(acc, <<k.val, v.val>>))
     ELSE NoFailure

\* A JSON object of string values starting at position i.
ParseObject(s, i) ==
  IF CharAt(s, i) # "{" THEN NoFailure
  ELSE LET j == SkipWs(s, i + 1)
       IN IF CharAt(s, j) = "}" THEN [ok |-> TRUE, val |-> <<>>, next |-> j + 1]
          ELSE ParsePairs(s, j, <<>>)

RECURSIVE ParseItems(_, _, _)
\* The objects of an array from position i on, up to its bracket.
ParseItems(s, i, acc) ==
  LET o == ParseObject(s, i)
      after == SkipWs(s, o.next)
  IN IF ~o.ok THEN NoFailure
     ELSE IF CharAt(s, after) = "]"
       THEN [ok |-> TRUE, val |-> Append(acc, o.val), next |-> after + 1]
     ELSE IF CharAt(s, after) = ","
       THEN ParseItems(s, SkipWs(s, after + 1), Append(acc, o.val))
     ELSE NoFailure

\* json.loads of a document that is an array of objects of strings: whether it
\* parses, and the list of the objects' (key, value) pairs.
json_loads(s) ==
  LET i == SkipWs(s, 1)
      j == SkipWs(s, i + 1)
      r == IF CharAt(s, i) # "[" THEN NoFailure
           ELSE IF CharAt(s, j) = "]" THEN [ok |-> TRUE, val |-> <<>>, next |-> j + 1]
           ELSE ParseItems(s, j, <<>>)
  IN IF r.ok /\ SkipWs(s, r.next) = Len(s) + 1 THEN [ok |-> TRUE, val |-> r.val]
     ELSE [ok |-> FALSE, val |-> <<>>]

IsDigit(c) == c \in {DigitChars[i] : i \in 1..10}

\* The shape HH:MM:SS,mmm: twelve characters, digits but for the separators.
IsFixedShape(s) ==
  /\ Len(s) = 12
  /\ s[3] = ":" /\ s[6] = ":" /\ s[9] = ","
  /\ \A i \in (1..12) \ {3, 6, 9} : IsDigit(s[i])

\* ------------------------------------------------------------------ claims

\* C3: for every non-negative seconds value the four fields are the value's
\* hours, minutes, seconds and milliseconds, each found by truncation: with the
\* value read as the decimal number ip + num/den, hours = floor(ip / 3600),
\* minutes = floor((ip mod 3600) / 60), seconds = ip mod 60 and milliseconds =
\* floor(num * 1000 / den), so that 3661.999 formats as 01:01:01,999.
C3_TruncatedFields ==
  pc = "format_done" =>
    formatted = ZeroPad(literal.ip \div 3600, 2) \o <<":">>
                  \o ZeroPad((literal.ip % 3600) \div 60, 2) \o <<":">>
                  \o ZeroPad(literal.ip % 60, 2) \o <<",">>
                  \o ZeroPad((literal.num * 1000) \div literal.den, 3)

\* C9 as stated: every result has the fixed-width shape HH:MM:SS,mmm, twelve
\* characters long, whatever the non-negative seconds value.
C9_AlwaysTwelveCharacters ==
  pc = "format_done" => IsFixedShape(formatted)

\* C9 as amended: below 360000 seconds (100 hours) the result has the shape
\* HH:MM:SS,mmm, twelve characters; from 360000 seconds on the hours field takes
\* as many digits as the hour count has, and the minutes, seconds and
\* milliseconds fields keep their 2, 2 and 3 digits.
C9_FixedWidthBelow100Hours ==
  pc = "format_done" =>
    LET hours == Digits(literal.ip \div 3600)
    IN IF literal.ip < 360000 THEN IsFixedShape(formatted)
       ELSE /\ Len(hours) > 2
            /\ Len(formatted) = Len(hours) + 10
            /\ IsFixedShape(<<"0", "0">> \o Drop(formatted, Len(hours)))
            /\ SubSeq(formatted, 1, Len(hours)) = hours

\* The formatter has returned for 359999.9999 s, the last hour of two digits,
\* and for it the result is twelve characters long.
C9_Witness ==
  /\ pc = "format_done"
  /\ literal = Lit(359999, 9999, 10000)
  /\ Len(formatted) = 12

\* What the claims expect of entry number k.
ExpectedStart(e) == format_time_srt(e.start)
ExpectedEnd(e) == format_time_srt(FloatAdd(e.start, e.duration))

\* Block k of the subtitle text: the counter, the cue line and the trimmed text,
\* each ended by a newline.
ExpectedBlock(k, e) ==
  Digits(k) \o <<NL>> \o ExpectedStart(e) \o Str_Arrow \o ExpectedEnd(e) \o <<NL>>
    \o Trimmed(e.text) \o <<NL>>

\* C1: for N entries create_srt's output is N blocks in entry order, block k
\* being the counter k, the line "<start> --> <end>" with end = start + duration,
\* and the trimmed text, each block followed by a blank line (an empty line
\* between it and the next block, the empty last line after the last block); no
\* entry is skipped, whatever its text.  Where no text holds a newline of its
\* own, the output split at newlines is exactly 4N lines.
C1_SrtBlocks ==
  "srt" \in rendered =>
    LET n == Len(transcript_data)
        lines == Split(srt_content, NL)
    IN /\ srt_content = Join([k \in 1..n |-> ExpectedBlock(k, transcript_data[k])], <<NL>>)
       /\ n = 0 => srt_content = <<>>
       /\ (n > 0 /\ \A k \in 1..n : NL \notin Range(Trimmed(transcript_data[k].text))) =>
            /\ Len(lines) = 4 * n
            /\ \A k \in 1..n :
                 /\ lines[4 * k - 3] = Digits(k)
                 /\ lines[4 * k - 2] = ExpectedStart(transcript_data[k]) \o Str_Arrow
                                         \o ExpectedEnd(transcript_data[k])
                 /\ IsTrimOf(lines[4 * k - 1], transcript_data[k].text)
                 /\ lines[4 * k] = <<>>

\* create_srt has returned for two entries, the second of whitespace only, and
\* its output has eight lines, the seventh (the second block's text) empty.
C1_Witness ==
  /\ "srt" \in rendered
  /\ Len(transcript_data) = 2
  /\ transcript_data[1].text = Txt_hi
  /\ transcript_data[2].text = Txt_blank
  /\ Len(Split(srt_content, NL)) = 8
  /\ Split(srt_content, NL)[5] = <<"2">>
  /\ Split(srt_content, NL)[7] = <<>>

\* The trimmed texts of the entries whose trimmed text is not empty, in order.
KeptTexts(data) ==
  SelectSeq([i \in 1..Len(data) |-> Trimmed(data[i].text)], LAMBDA t : t # <<>>)

RECURSIVE SumLineCounts(_)
SumLineCounts(texts) ==
  IF texts = <<>> THEN 0 ELSE LineCount(Head(texts)) + SumLineCounts(Tail(texts))

\* C2 as stated: create_markdown omits every entry whose trimmed text is empty,
\* keeps the other trimmed texts in order, and its output has as many lines as
\* there are entries whose trimmed text is not empty.
C2_OneLinePerKeptEntry ==
  "md" \in rendered =>
    /\ md_content = Join(KeptTexts(transcript_data), <<NL>>)
    /\ LineCount(md_content) = Len(KeptTexts(transcript_data))

\* C2 as amended: create_markdown's output is the non-empty trimmed texts, in
\* order, joined by single newlines; a kept text contributes all the lines it
\* holds, so the output has as many lines as kept entries exactly when no kept
\* text holds a newline of its own.
C2_KeptTextsJoined ==
  "md" \in rendered =>
    LET kept == KeptTexts(transcript_data)
    IN /\ md_content = Join(kept, <<NL>>)
       /\ LineCount(md_content) = SumLineCounts(kept)
       /\ (\A i \in 1..Len(kept) : NL \notin Range(kept[i]))
            <=> LineCount(md_content) = Len(kept)

\* create_markdown has returned for a two-line text followed by an empty one:
\* one entry kept, one omitted, two lines of output.
C2_Witness ==
  /\ "md" \in rendered
  /\ Len(transcript_data) = 2
  /\ transcript_data[1].text = Txt_two_lines
  /\ transcript_data[2].text = Txt_empty
  /\ md_content = Txt_two_lines

\* C8: parsing create_json's output yields exactly N records, in entry order,
\* record i with the start time format_time_srt(start_i), the end time
\* format_time_srt(start_i + duration_i) and the trimmed text of entry i; an
\* entry whose trimmed text is empty yields a record too.
C8_JsonRoundTrip ==
  "json" \in rendered =>
    LET parsed == json_loads(json_content)
    IN /\ parsed.ok
       /\ Len(parsed.val) = Len(transcript_data)
       /\ \A i \in 1..Len(transcript_data) :
            parsed.val[i] = << <<Str_in_ts, ExpectedStart(transcript_data[i])>>,
                               <<Str_out_ts, ExpectedEnd(transcript_data[i])>>,
                               <<Str_text, Trimmed(transcript_data[i].text)>> >>

\* create_json has returned for a text that JSON must escape followed by an
\* empty text, and its output parses to two records.
C8_Witness ==
  /\ "json" \in rendered
  /\ Len(transcript_data) = 2
  /\ transcript_data[1].text = Txt_quoted
  /\ transcript_data[2].text = Txt_empty
  /\ json_loads(json_content).ok
  /\ Len(json_loads(json_content).val) = 2
  /\ json_loads(json_content).val[2][3] = <<Str_text, <<>>>>

\* main has called extract_video_id and holds its result in vid.
Extracted == Len(argv) >= 1 /\ lib_installed /\ pc \notin {"main", "import", "extract"}

\* C4: for one and the same 11-character alphanumeric ID, extract_video_id
\* returns that ID for the raw ID, for the /watch?v=<id> and /embed/<id> URLs on
\* www.youtube.com, youtube.com and m.youtube.com, and for the youtu.be/<id> URL.
C4_SameIdFromEveryShape ==
  Extracted =>
    \A id \in VideoIds : argv[1] \in KnownShapes(id) => vid = PyStr(id)

\* main has extracted the ID from an embed URL on the mobile host.
C4_Witness ==
  /\ Extracted
  /\ argv[1] = EmbedUrl(Scheme_http, Host_mobile, Id_digits)
  /\ vid = PyStr(Id_digits)
  /\ pc = "mkdir"

\* C5: for every reference that is neither a raw ID nor a URL of a known shape
\* carrying an ID, extract_video_id returns None, never a string, and main
\* exits with a non-zero status without calling the transcript API.
C5_NotFoundForUnrecognised ==
  (Extracted /\ argv[1] \notin Recognised) =>
    /\ vid = PyNone
    /\ pc = "done" /\ exit_code = <<1>>
    /\ api_calls = <<>>

FetchSucceeded == \E i \in 1..Len(api_calls) : api_calls[i] = Call("fetch", TRUE)

AllWritten == \A k \in Kinds : files[k].status = "written"

\* C6: a run of main ends with exit status 0 only when the transcript was
\* fetched and all three files were written; in every other case (no argument,
\* no video ID, library missing, directory, fetch, render or write error) it ends
\* with exit status 1 after one message on stderr.  No call to the transcript
\* API is made twice, every failed call but the first lookup ends the run with
\* the error reported, and the first lookup's failure is announced on stdout.
C6_ExitCodes ==
  /\ exit_code \in {<<>>, <<0>>, <<1>>}
  /\ exit_code # <<>> <=> pc = "done"
  /\ exit_code = <<0>> => FetchSucceeded /\ AllWritten /\ stderr = <<>>
  /\ (pc = "done" /\ ~(FetchSucceeded /\ AllWritten)) => exit_code = <<1>> /\ Len(stderr) = 1
  /\ \A i, j \in 1..Len(api_calls) : api_calls[i].call = api_calls[j].call => i = j
  /\ \A i \in 1..Len(api_calls) :
       ~api_calls[i].ok =>
         \/ /\ api_calls[i].call = "find_transcript"
            /\ Message("trying_generated", "find_transcript") \in Range(stdout)
         \/ /\ i = Len(api_calls) /\ pc = "done" /\ exit_code = <<1>>
            /\ stderr = <<Message("error", api_calls[i].call)>>

\* A run has ended on a write error of the flattened file: exit status 1, the
\* error on stderr, after a fetch that succeeded.
C6_Witness ==
  /\ pc = "done"
  /\ exit_code = <<1>>
  /\ stderr = <<Message("error", "md")>>
  /\ FetchSucceeded
  /\ ~AllWritten

CallNames == [i \in 1..Len(api_calls) |-> api_calls[i].call]

BothLookupsFailed ==
  /\ Call("find_transcript", FALSE) \in Range(api_calls)
  /\ Call("find_generated_transcript", FALSE) \in Range(api_calls)

\* C7: the lookup of the manually created transcript comes first; the lookup of
\* the generated one is made only right after the manual lookup has failed, and
\* at most once; the fetch follows a lookup that succeeded; and when both
\* lookups fail the run has ended with exit status 1 and no file written.
C7_ManualThenGenerated ==
  /\ \A i \in 1..Len(api_calls) :
       /\ CallNames[i] = "find_transcript" =>
            i > 1 /\ api_calls[i - 1] = Call("list", TRUE)
       /\ CallNames[i] = "find_generated_transcript" =>
            i > 1 /\ api_calls[i - 1] = Call("find_transcript", FALSE)
       /\ CallNames[i] = "fetch" =>
            /\ i > 1 /\ api_calls[i - 1].ok
            /\ CallNames[i - 1] \in {"find_transcript", "find_generated_transcript"}
  /\ Cardinality({i \in 1..Len(api_calls) : CallNames[i] = "find_transcript"}) <= 1
  /\ Cardinality({i \in 1..Len(api_calls) : CallNames[i] = "find_generated_transcript"}) <= 1
  /\ BothLookupsFailed =>
       /\ pc = "done" /\ exit_code = <<1>>
       /\ \A k \in Kinds : files[k].status = "absent"

\* Both lookups were made, in order, and both failed; the run has ended.
C7_Witness ==
  /\ api_calls = <<Call("list", TRUE), Call("find_transcript", FALSE),
                   Call("find_generated_transcript", FALSE)>>
  /\ pc = "done"
  /\ exit_code = <<1>>

\* The order the claim names: subtitle, flattened, structured.
ClaimedOrder == <<"srt", "md", "json">>

\* C10: the files are written in the order .en.srt, .md, .json, and only after
\* the fetch has succeeded: at any point the files written are a prefix of that
\* order, each holding what its renderer returns for the fetched entries; a
\* write that fails leaves the files written before it in place and the later
\* ones unwritten; and the success message is printed only when all three are
\* written.
C10_WritesInOrder ==
  /\ \A k \in 1..3 :
       files[ClaimedOrder[k]].status # "absent" =>
         /\ FetchSucceeded
         /\ \A j \in 1..(k - 1) : files[ClaimedOrder[j]].status = "written"
  /\ \A k \in 1..3 :
       files[ClaimedOrder[k]].status = "written" =>
         files[ClaimedOrder[k]].content = Render(ClaimedOrder[k], raw_data)
  /\ \A k \in 1..3 :
       (pc = "done" /\ stderr = <<Message("error", ClaimedOrder[k])>>) =>
         /\ \A j \in 1..(k - 1) : files[ClaimedOrder[j]].status = "written"
         /\ files[ClaimedOrder[k]].status # "written"
         /\ \A j \in (k + 1)..3 : files[ClaimedOrder[j]].status = "absent"
  /\ Message("saved", "saved") \in Range(stdout) => AllWritten

\* The write of the flattened file failed half way: the subtitle file stays
\* written, the structured file is never written, the run has ended.
C10_Witness ==
  /\ pc = "done"
  /\ files["srt"].status = "written"
  /\ files["srt"].content # <<>>
  /\ files["md"].status = "partial"
  /\ files["json"].status = "absent"
  /\ stderr = <<Message("error", "md")>>
====
